---- MODULE Spec2Model ----
(***************************************************************************)
(* Model of gravitational_potential_solar_system.py.                       *)
(*                                                                         *)
(* Two specifications share the variables:                                 *)
(*   Spec      get_phi called directly, and the sampler and renderer of    *)
(*             solar_system_gravitational_potential() run on a body        *)
(*             mapping.  Distances and masses are small integers in model  *)
(*             units; potentials are exact rationals <<num, den>>          *)
(*             (floating-point rounding is not modelled).                  *)
(*   DataSpec  get_solar_system_data() and the construction of the body    *)
(*             mapping (lines 42-68), over successive runs of the program  *)
(*             that share the cache file.  Numbers are decimals            *)
(*             [m, e] standing for m * 10^e.                               *)
(***************************************************************************)
EXTENDS Integers, Sequences, FiniteSets, TLC

VARIABLES
    pc,         \* control point of the process
    call,       \* arguments <<M, R, S>> of a direct call of get_phi
    ret,        \* value returned by that call
    data,       \* the body mapping (a dict: sequence of entries in insertion order)
    bi,         \* index in data of the body the loop of line 75 is at
    k,          \* index in S_range (line 80) or base_S_range (line 85)
    phi,        \* phi: series name -> list of samples <<d, v>>
    produced,   \* phi as the sampler left it (after line 92), before any sort
    order,      \* planets_by_distance
    ri,         \* index in planets_by_distance of the series to draw next
    plots,      \* the ax.plot calls made so far
    file,       \* content of planetary_factsheet.json
    remote,     \* the dataset the remote URL serves
    run,        \* number of the current run of the program
    file0,      \* the cache file as the current run found it
    fetches,    \* requests.get calls made in the current run
    all_data,   \* the dataset get_solar_system_data holds (data of lines 48-53)
    history     \* one record per finished run: what it found, did and built

vars == <<pc, call, ret, data, bi, k, phi, produced, order, ri, plots,
          file, remote, run, file0, fetches, all_data, history>>

samplerVars == <<call, ret, data, bi, k, phi, produced, order, ri, plots>>
dataVars == <<file, remote, run, file0, fetches, all_data, history>>

----------------------------------------------------------------------------
(* Bounds of the model.                                                    *)

\* masses of the bodies range over 0..MaxM
MaxM == 1
\* radii are StepDiv * (1..MaxK), orbital distances 5 * CoarseBins * (0..MaxK)
MaxK == 2
\* the dense grid's step is R / StepDiv (the code: R/100)
StepDiv == 2
\* the dense grid spans R * SpanMul (the code: R*100)
SpanMul == 2
\* the coarse grid has CoarseBins steps (the code: max_S/1000)
CoarseBins == 4
\* arguments of a direct call of get_phi range over 0..MaxArg
MaxArg == 4
\* the program is run MaxRuns times on the same cache file
MaxRuns == 2
\* the raw numbers of a dataset entry are multiples 0..MaxRaw of fixed decimals
MaxRaw == 1

----------------------------------------------------------------------------
(* Exact rational arithmetic: <<n, d>> with d > 0 in lowest terms.         *)
(* <<0, 0>> stands for a division by zero (no value).                      *)

Abs(x) == IF x < 0 THEN -x ELSE x

RECURSIVE GCD(_, _)
GCD(a, b) == IF b = 0 THEN a ELSE GCD(b, a % b)

DivByZero == <<0, 0>>

IsValue(q) == q[2] # 0

\* n / d
Rat(n, d) ==
    IF d = 0 THEN DivByZero
    ELSE LET g == GCD(Abs(n), Abs(d))
             s == IF d < 0 THEN -1 ELSE 1
         IN  <<(s * n) \div g, (s * d) \div g>>

RatNeg(q) == IF IsValue(q) THEN <<-q[1], q[2]>> ELSE DivByZero

RatAdd(p, q) ==
    IF IsValue(p) /\ IsValue(q)
    THEN LET g == GCD(p[2], q[2])
         IN  Rat(p[1] * (q[2] \div g) + q[1] * (p[2] \div g), p[2] * (q[2] \div g))
    ELSE DivByZero

RatIsNonNeg(q) == IsValue(q) /\ q[1] >= 0

----------------------------------------------------------------------------
(* Constants and get_phi.                                                  *)

\* G = 7.4 * 10**(-28), in units of 10**(-29)
G == 74

\* a variant of phi_inside: the divisor is 2*(R**2)
phi_inside_square(M, R, S) == Rat(G * M * (S * S - 3 * (R * R)), 2 * (R * R))

\* line 11: G*M*(S**2-3*(R**2))/(2*(R**3))
phi_inside(M, R, S) == Rat(G * M * (S * S - 3 * (R * R)), 2 * (R * R * R))

\* a variant of phi_outside: the inverse-square law, -G*M/S**2
phi_outside_square(M, S) == Rat(-(G * M), S * S)

\* line 13: -G*M/S
phi_outside(M, S) == Rat(-(G * M), S)

get_phi(M, R, S) == IF S < R THEN phi_inside(M, R, S) ELSE phi_outside(M, S)

----------------------------------------------------------------------------
(* Helpers of the sampler and the renderer.                                *)

Max(a, b) == IF a >= b THEN a ELSE b

\* ceil(a / b) for a >= 0, b > 0
CeilDiv(a, b) == (a + b - 1) \div b

\* np.arange(start, stop, step), step > 0: start + i*step for i < ceil((stop-start)/step)
arange(start, stop, step) ==
    [i \in 1..CeilDiv(Max(stop - start, 0), step) |-> start + (i - 1) * step]

\* data[name]
RECURSIVE Lookup(_, _)
Lookup(d, name) ==
    IF d = <<>> THEN [name |-> "KeyError", M |-> 0, S |-> 0, R |-> 0]
    ELSE IF Head(d).name = name THEN Head(d) ELSE Lookup(Tail(d), name)

\* max(p['S'] for p in data.values())
RECURSIVE MaxOrbit(_)
MaxOrbit(d) == IF d = <<>> THEN 0 ELSE Max(Head(d).S, MaxOrbit(Tail(d)))

\* line 69: max_S = max(...)*1.2
max_S(d) == (MaxOrbit(d) * 12) \div 10

\* line 71: AU = data['earth'].get('S')
AU(d) == Lookup(d, "earth").S

\* line 72: S_bin = max_S/1000
S_bin(d) == max_S(d) \div CoarseBins

\* line 73: base_S_range = np.arange(0, max_S, S_bin)
base_S_range(d) == arange(0, max_S(d), S_bin(d))

\* line 77: S_step = p['R']/100
S_step(p) == p.R \div StepDiv

\* line 78: S_max = p['R']*100
S_max(p) == p.R * SpanMul

\* line 79: S_range = np.arange(0, S_max, S_step)
S_range(p) == arange(0, S_max(p), S_step(p))

\* a variant of DenseValue: the sign is not flipped
DenseValue_raw(p, S) == get_phi(p.M, p.R, S)

\* a variant of DenseValue: get_phi is given the distance from the Sun
DenseValue_from_sun(p, S) == RatNeg(get_phi(p.M, p.R, p.S + S))

\* line 81: the sample value of the dense grid's offset S
DenseValue(p, S) == RatNeg(get_phi(p.M, p.R, S))

\* a variant of MirrorGuard: p['S']-S >= 0
MirrorGuard_ge(p, S) == p.S - S >= 0

\* line 83: the guard of the mirrored sample
MirrorGuard(p, S) == p.S - S > 0

\* lines 81-84: the samples appended for the dense grid's offset S
DenseSamples(p, S) ==
    <<<<p.S + S, DenseValue(p, S)>>>>
    \o (IF MirrorGuard(p, S) THEN <<<<p.S - S, DenseValue(p, S)>>>> ELSE <<>>)

\* lines 86-87: the sample appended for the coarse grid's point S
CoarseSample(p, S) == <<S, RatNeg(get_phi(p.M, p.R, Abs(p.S - S)))>>

\* sorted(...) and list.sort(key=...): a stable sort by key, as insertion of each
\* element after the elements whose key is not greater
RECURSIVE InsertByKey(_, _, _)
InsertByKey(x, kx, s) ==
    \* s is a sequence of <<key, element>>, sorted by key
    IF s = <<>> THEN <<<<kx, x>>>>
    ELSE IF Head(s)[1] <= kx THEN <<Head(s)>> \o InsertByKey(x, kx, Tail(s))
    ELSE <<<<kx, x>>>> \o s

RECURSIVE SortKeyed(_)
SortKeyed(s) ==
    \* s is a sequence of <<key, element>>
    IF s = <<>> THEN <<>>
    ELSE LET n == Len(s)
         IN  InsertByKey(s[n][2], s[n][1], SortKeyed(SubSeq(s, 1, n - 1)))

\* a variant of SortSamples: the curve is left as it is
SortSamples_none(c) == c

\* line 133: data.sort(key=lambda x: x[0])
SortSamples(c) ==
    LET s == SortKeyed([i \in 1..Len(c) |-> <<c[i][1], c[i]>>])
    IN  [i \in 1..Len(s) |-> s[i][2]]

\* line 92: sorted(all_S_values)
SortNums(c) ==
    LET s == SortKeyed([i \in 1..Len(c) |-> <<c[i], c[i]>>])
    IN  [i \in 1..Len(s) |-> s[i][2]]

\* lines 89-91: the distances of every curve, in the order of phi.values()
RECURSIVE all_S_values(_, _)
all_S_values(d, f) ==
    IF d = <<>> THEN <<>>
    ELSE LET c == f[Head(d).name]
         IN  [i \in 1..Len(c) |-> c[i][1]] \o all_S_values(Tail(d), f)

\* a variant of SumPhi: the Sun is left out of the sum
RECURSIVE SumPhi_planets(_, _)
SumPhi_planets(d, S) ==
    IF d = <<>> THEN <<0, 1>>
    ELSE LET n == Len(d)
             p == d[n]
         IN  IF p.name = "sun" THEN SumPhi_planets(SubSeq(d, 1, n - 1), S)
             ELSE RatAdd(SumPhi_planets(SubSeq(d, 1, n - 1), S),
                         RatNeg(get_phi(p.M, p.R, Abs(p.S - S))))

\* line 92: sum(-get_phi(p['M'], p['R'], abs(p['S']-S)) for p in data.values())
RECURSIVE SumPhi(_, _)
SumPhi(d, S) ==
    IF d = <<>> THEN <<0, 1>>
    ELSE LET n == Len(d)
             p == d[n]
         IN  RatAdd(SumPhi(SubSeq(d, 1, n - 1), S),
                    RatNeg(get_phi(p.M, p.R, Abs(p.S - S))))

\* line 92: phi['all']
AllCurve(d, f) ==
    LET ds == SortNums(all_S_values(d, f))
    IN  [i \in 1..Len(ds) |-> <<ds[i], SumPhi(d, ds[i])>>]

\* lines 125-126: planets_by_distance
planets_by_distance(d) ==
    LET s == SortKeyed([i \in 1..Len(d) |-> <<d[i].S, d[i].name>>])
    IN  <<"all">> \o [i \in 1..Len(s) |-> s[i][2]]

\* line 134: the arguments of ax.plot for a sorted curve c
PlotCall(name, c, au) ==
    [name |-> name,
     x |-> [i \in 1..Len(c) |-> Rat(c[i][1], au)],
     y |-> [i \in 1..Len(c) |-> c[i][2]]]

----------------------------------------------------------------------------
(* The states the sampler starts from.                                     *)

\* M, R and S of a body are numbers of the dataset with M >= 0, S >= 0 and R > 0:
\* with R = 0 the step of line 79's np.arange is 0 and the run ends there
Masses == 0..MaxM
Radii == {StepDiv * j : j \in 1..MaxK}
\* the largest S is a multiple of 5 * CoarseBins: S_bin = 1.2 * S / CoarseBins is
\* then an integer
Orbits == {5 * CoarseBins * j : j \in 0..MaxK}

Body(n, M, S, R) == [name |-> n, M |-> M, S |-> S, R |-> R]

\* lines 64-68: the Sun's entry has S = 0
Suns == {Body("sun", M, 0, R) : M \in Masses \ {0}, R \in Radii}
\* line 70 reads data['earth'], and its S > 0 is the AU that line 134 divides by
Earths == {Body("earth", M, S, R) : M \in Masses, S \in Orbits \ {0}, R \in Radii}
\* another body of the dataset; at S = StepDiv its dense grid reaches past the Sun
Others == {Body("mars", MaxM, S, StepDiv) : S \in Orbits \cup {StepDiv}}

\* the body mappings: the dataset's entries in their order, then the Sun
Systems ==
    {<<e, s>> : e \in Earths, s \in Suns}
    \cup {<<e, o, s>> : e \in Earths, o \in Others, s \in Suns}
    \cup {<<o, e, s>> : e \in Earths, o \in Others, s \in Suns}

\* the data provider is not part of Spec
DataIdle ==
    /\ file = [state |-> "missing", text |-> <<>>]
    /\ file0 = file
    /\ remote = <<>> /\ run = 0
    /\ fetches = 0 /\ all_data = <<>> /\ history = <<>>

InitCall ==
    /\ pc = "call"
    /\ call \in (0..MaxArg) \X (0..MaxArg) \X (0..MaxArg)
    /\ data = <<>>

InitSampler ==
    /\ pc = "body"
    /\ call = <<>>
    /\ data \in Systems

Init ==
    /\ InitCall \/ InitSampler
    /\ ret = <<>>
    /\ bi = 1 /\ k = 1
    /\ phi = <<>> /\ produced = <<>>
    /\ order = <<>> /\ ri = 1 /\ plots = <<>>
    /\ DataIdle

----------------------------------------------------------------------------
(* Actions of Spec.                                                        *)

\* a direct call get_phi(M, R, S): it returns a value or raises ZeroDivisionError
GetPhiCall ==
    /\ pc = "call"
    /\ ret' = get_phi(call[1], call[2], call[3])
    /\ pc' = IF IsValue(ret') THEN "returned" ELSE "raised"
    /\ UNCHANGED <<call, data, bi, k, phi, produced, order, ri, plots>>
    /\ UNCHANGED dataVars

\* lines 75-79: the loop takes the next body and starts its curve
BeginBody ==
    /\ pc = "body"
    /\ bi <= Len(data)
    /\ phi' = (data[bi].name :> <<>>) @@ phi
    /\ k' = 1
    /\ pc' = "dense"
    /\ UNCHANGED <<call, ret, data, bi, produced, order, ri, plots>>
    /\ UNCHANGED dataVars

\* lines 80-84: one offset of the dense grid
DenseStep ==
    /\ pc = "dense"
    /\ LET p == data[bi]
           S == S_range(p)[k]
       IN  /\ phi' = [phi EXCEPT ![p.name] = @ \o DenseSamples(p, S)]
           /\ IF k < Len(S_range(p))
              THEN k' = k + 1 /\ pc' = "dense"
              ELSE k' = 1 /\ pc' = "coarse"
    /\ UNCHANGED <<call, ret, data, bi, produced, order, ri, plots>>
    /\ UNCHANGED dataVars

\* lines 85-87: one point of the coarse grid
CoarseStep ==
    /\ pc = "coarse"
    /\ LET p == data[bi]
           S == base_S_range(data)[k]
       IN  /\ phi' = [phi EXCEPT ![p.name] = Append(@, CoarseSample(p, S))]
           /\ IF k < Len(base_S_range(data))
              THEN k' = k + 1 /\ pc' = "coarse" /\ bi' = bi
              ELSE k' = 1 /\ pc' = "body" /\ bi' = bi + 1
    /\ UNCHANGED <<call, ret, data, produced, order, ri, plots>>
    /\ UNCHANGED dataVars

\* lines 89-92 and 125-126: the aggregate curve, then the order of the series
Aggregate ==
    /\ pc = "body"
    /\ bi > Len(data)
    /\ phi' = ("all" :> AllCurve(data, phi)) @@ phi
    /\ produced' = phi'
    /\ order' = planets_by_distance(data)
    /\ ri' = 1
    /\ pc' = "render"
    /\ UNCHANGED <<call, ret, data, bi, k, plots>>
    /\ UNCHANGED dataVars

\* lines 127-134: one series is sorted and drawn
RenderSeries ==
    /\ pc = "render"
    /\ ri <= Len(order)
    /\ LET name == order[ri]
           c == SortSamples(phi[name])
       IN  /\ phi' = [phi EXCEPT ![name] = c]
           /\ plots' = Append(plots, PlotCall(name, c, AU(data)))
    /\ ri' = ri + 1
    /\ pc' = IF ri < Len(order) THEN "render" ELSE "shown"
    /\ UNCHANGED <<call, ret, data, bi, k, produced, order>>
    /\ UNCHANGED dataVars

Next ==
    \/ GetPhiCall
    \/ BeginBody
    \/ DenseStep
    \/ CoarseStep
    \/ Aggregate
    \/ RenderSeries

Spec == Init /\ [][Next]_vars

----------------------------------------------------------------------------
(* The data provider: get_solar_system_data and the body mapping.          *)

\* the decimal number m * 10^e
Num(m, e) == [m |-> m, e |-> e]

\* x * 10**n
TimesPow10(x, n) == IF x.m = 0 THEN Num(0, 0) ELSE Num(x.m, x.e + n)

\* line 5: M_sun = 1.989 * 10**30
M_sun == Num(1989, 27)

\* line 6: R_sun = 7 * 10**8
R_sun == Num(7, 8)

\* the decimal digits of a natural number, and back
RECURSIVE Digits(_)
Digits(n) == IF n < 10 THEN <<n>> ELSE Append(Digits(n \div 10), n % 10)

RECURSIVE FromDigits(_)
FromDigits(s) ==
    IF s = <<>> THEN 0
    ELSE 10 * FromDigits(SubSeq(s, 1, Len(s) - 1)) + s[Len(s)]

\* a number as json.dump writes it: digits, the exponent's sign, its digits
NumText(x) == [int |-> Digits(x.m), neg |-> x.e < 0, exp |-> Digits(Abs(x.e))]

\* a variant of NumParse: the exponent's sign is not read
NumParse_unsigned(t) == Num(FromDigits(t.int), FromDigits(t.exp))

\* a number as json.load reads it
NumParse(t) == Num(FromDigits(t.int), (IF t.neg THEN -1 ELSE 1) * FromDigits(t.exp))

\* line 52: json.dump(data, f, indent=4) into the file opened at line 51
json_dump(d) ==
    [state |-> "json",
     text |-> [i \in 1..Len(d) |->
                 [key |-> d[i].key,
                  mass10_24Kg |-> NumText(d[i].mass10_24Kg),
                  semimajorAxis10_6Km |-> NumText(d[i].semimajorAxis10_6Km),
                  volumetricMeanRadiusKm |-> NumText(d[i].volumetricMeanRadiusKm)]]]

\* a variant of json_load_fails: only a missing file is a cache miss
json_load_fails_missing(f) == f.state = "missing"

\* lines 47-49: open(fname) or json.load(f) raises
json_load_fails(f) == f.state # "json"

\* line 48: json.load(f)
json_load(f) ==
    [i \in 1..Len(f.text) |->
        [key |-> f.text[i].key,
         mass10_24Kg |-> NumParse(f.text[i].mass10_24Kg),
         semimajorAxis10_6Km |-> NumParse(f.text[i].semimajorAxis10_6Km),
         volumetricMeanRadiusKm |-> NumParse(f.text[i].volumetricMeanRadiusKm)]]

\* lines 58-63: the dict comprehension over all_data.items()
Converted(all) ==
    [i \in 1..Len(all) |->
        Body(all[i].key,
             TimesPow10(all[i].mass10_24Kg, 24),
             TimesPow10(all[i].semimajorAxis10_6Km, 9),
             TimesPow10(all[i].volumetricMeanRadiusKm, 3))]

\* a variant of SetItem: d.setdefault(b.name, b), an existing entry is kept
SetItem_default(d, b) ==
    IF \E i \in 1..Len(d) : d[i].name = b.name THEN d ELSE Append(d, b)

\* d[b.name] = b: an existing key keeps its place, a new key goes last
SetItem(d, b) ==
    IF \E i \in 1..Len(d) : d[i].name = b.name
    THEN [i \in 1..Len(d) |-> IF d[i].name = b.name THEN b ELSE d[i]]
    ELSE Append(d, b)

\* lines 58-68: data
BodyMapping(all) == SetItem(Converted(all), Body("sun", M_sun, Num(0, 0), R_sun))

\* a dataset entry; j scales its three numbers
RawEntry(name, j) ==
    [key |-> name,
     mass10_24Kg |-> Num(33 * j, -2),
     semimajorAxis10_6Km |-> Num(579 * j, -1),
     volumetricMeanRadiusKm |-> Num(2440 * j, 0)]

Names == {"earth", "mars", "sun"}

RawEntries == {RawEntry(n, j) : n \in Names, j \in 0..MaxRaw}

\* the datasets: one or two entries with distinct keys
Datasets ==
    {<<a>> : a \in RawEntries}
    \cup {ab \in RawEntries \X RawEntries : ab[1].key # ab[2].key}

NoFile == [state |-> "missing", text |-> <<>>]
Corrupt == [state |-> "corrupt", text |-> <<>>]

\* what a run can find at planetary_factsheet.json
Files == {NoFile, Corrupt} \cup {json_dump(d) : d \in Datasets}

SamplerIdle ==
    /\ call = <<>> /\ ret = <<>> /\ bi = 1 /\ k = 1
    /\ phi = <<>> /\ produced = <<>> /\ order = <<>> /\ ri = 1 /\ plots = <<>>

InitData ==
    /\ pc = "read"
    /\ run = 1
    /\ file \in Files
    /\ file0 = file
    /\ remote \in Datasets
    /\ fetches = 0
    /\ all_data = <<>>
    /\ data = <<>>
    /\ history = <<>>
    /\ SamplerIdle

\* what a finished run leaves in history
RunRecord(status, n, mapping) ==
    [file0 |-> file0, fetches |-> n, status |-> status,
     dataset |-> all_data, mapping |-> mapping, file |-> file]

\* lines 46-49: the cache file is read, or the except branch is entered
ReadCache ==
    /\ pc = "read"
    /\ IF json_load_fails(file)
       THEN pc' = "fetch" /\ UNCHANGED all_data
       ELSE pc' = "build" /\ all_data' = json_load(file)
    /\ UNCHANGED <<data, file, remote, run, file0, fetches, history>>
    /\ UNCHANGED <<call, ret, bi, k, phi, produced, order, ri, plots>>

\* line 50: requests.get(...).json() returns the remote dataset
FetchOk ==
    /\ pc = "fetch"
    /\ fetches' = fetches + 1
    /\ all_data' = remote
    /\ pc' = "write"
    /\ UNCHANGED <<data, file, remote, run, file0, history>>
    /\ UNCHANGED <<call, ret, bi, k, phi, produced, order, ri, plots>>

\* line 50: requests.get(...).json() raises; nothing catches it
FetchFails ==
    /\ pc = "fetch"
    /\ fetches' = fetches + 1
    /\ pc' = "fatal"
    /\ history' = Append(history, RunRecord("fatal", fetches + 1, <<>>))
    /\ UNCHANGED <<data, file, remote, run, file0, all_data>>
    /\ UNCHANGED <<call, ret, bi, k, phi, produced, order, ri, plots>>

\* lines 51-52: the fetched dataset is written to the cache file
WriteCache ==
    /\ pc = "write"
    /\ file' = json_dump(all_data)
    /\ pc' = "build"
    /\ UNCHANGED <<data, remote, run, file0, fetches, all_data, history>>
    /\ UNCHANGED <<call, ret, bi, k, phi, produced, order, ri, plots>>

\* lines 53 and 57-68: the dataset is returned and the body mapping built
BuildMapping ==
    /\ pc = "build"
    /\ data' = BodyMapping(all_data)
    /\ pc' = "done"
    /\ history' = Append(history, RunRecord("done", fetches, data'))
    /\ UNCHANGED <<file, remote, run, file0, fetches, all_data>>
    /\ UNCHANGED <<call, ret, bi, k, phi, produced, order, ri, plots>>

\* the program is run again; the remote dataset may have changed meanwhile
NextRun ==
    /\ pc \in {"done", "fatal"}
    /\ run < MaxRuns
    /\ run' = run + 1
    /\ file0' = file
    /\ fetches' = 0
    /\ all_data' = <<>>
    /\ data' = <<>>
    /\ remote' \in Datasets
    /\ pc' = "read"
    /\ UNCHANGED <<file, history>>
    /\ UNCHANGED <<call, ret, bi, k, phi, produced, order, ri, plots>>

DataNext ==
    \/ ReadCache
    \/ FetchOk
    \/ FetchFails
    \/ WriteCache
    \/ BuildMapping
    \/ NextRun

DataSpec == InitData /\ [][DataNext]_vars

----------------------------------------------------------------------------
(* The claims.                                                             *)

\* p = n / d, stated by cross-multiplication
IsQuotient(q, n, d) == IsValue(q) /\ d # 0 /\ q[1] * d = n * q[2]

\* p <= q for values p and q
RatLeq(p, q) == p[1] * q[2] <= q[1] * p[2]

\* C1: for every M, every R > 0 and every S >= 0, get_phi(M, R, S) returns
\* G*M*(S^2 - 3*R^2)/(2*R^3) when S < R and -G*M/S when S >= R; at S = 0 the
\* sign-flipped value -get_phi(M, R, 0) is 1.5*G*M/R.
C1_GetPhiFormula ==
    (pc = "returned" /\ call[2] > 0) =>
        LET M == call[1]
            R == call[2]
            S == call[3]
        IN  /\ S < R => IsQuotient(ret, G * M * (S * S - 3 * R * R), 2 * R * R * R)
            /\ S >= R => IsQuotient(ret, -(G * M), S)
            /\ S = 0 => IsQuotient(RatNeg(ret), 3 * G * M, 2 * R)

C1_Witness ==
    /\ pc = "returned"
    /\ call[1] > 0 /\ call[2] > 1 /\ call[3] = 0
    /\ IsQuotient(RatNeg(ret), 3 * G * call[1], 2 * call[2])

\* the sum over the bodies with index in I of each body's magnitude at abs(p.S - x)
RECURSIVE MagnitudeSum(_, _, _)
MagnitudeSum(d, I, x) ==
    IF I = {} THEN <<0, 1>>
    ELSE LET i == CHOOSE j \in I : TRUE
         IN  RatAdd(RatNeg(get_phi(d[i].M, d[i].R, Abs(d[i].S - x))),
                    MagnitudeSum(d, I \ {i}, x))

\* C2: once the sampler has built phi['all'], each of its samples (d, v) has
\* v = the sum over all bodies p, the Sun included, of -get_phi(p.M, p.R, abs(p.S - d));
\* for a system of the Sun and the Earth alone the value at d = 0 is the Sun's
\* magnitude at 0, 1.5*G*M/R, plus the Earth's point-mass magnitude G*M/S.
C2_AllIsSum ==
    "all" \in DOMAIN phi =>
        /\ \A i \in 1..Len(phi["all"]) :
              phi["all"][i][2] = MagnitudeSum(data, 1..Len(data), phi["all"][i][1])
        /\ (Len(data) = 2 /\ Lookup(data, "earth").S >= Lookup(data, "earth").R) =>
              LET e == Lookup(data, "earth")
                  s == Lookup(data, "sun")
              IN  /\ phi["all"][1][1] = 0
                  /\ phi["all"][1][2] =
                        RatAdd(Rat(3 * G * s.M, 2 * s.R), Rat(G * e.M, e.S))

C2_Witness ==
    /\ "all" \in DOMAIN phi
    /\ Len(data) = 2
    /\ Lookup(data, "earth").M > 0 /\ Lookup(data, "sun").M > 0
    /\ phi["all"][1][1] = 0
    /\ phi["all"][1][2][1] > 0

\* every sample value stored in a curve
StoredValuesNonNeg ==
    \A n \in DOMAIN phi : \A i \in 1..Len(phi[n]) : RatIsNonNeg(phi[n][i][2])

\* C3 as stated: for every M >= 0, R >= 0, S >= 0 the computation yields a value,
\* -get_phi(M, R, S), that is non-negative, and so is every stored sample value.
C3_Original ==
    /\ pc \in {"returned", "raised"} => pc = "returned" /\ RatIsNonNeg(RatNeg(ret))
    /\ StoredValuesNonNeg

\* C3 amended: for every M >= 0, R >= 0, S >= 0 other than R = S = 0 the value
\* -get_phi(M, R, S) is non-negative; at R = S = 0 get_phi divides by zero and
\* yields no value; every sample value stored in a per-body curve or in the
\* 'all' curve is non-negative.
C3_NonNegative ==
    /\ pc \in {"returned", "raised"} =>
          IF call[2] = 0 /\ call[3] = 0
          THEN pc = "raised"
          ELSE pc = "returned" /\ RatIsNonNeg(RatNeg(ret))
    /\ StoredValuesNonNeg

C3_Witness ==
    /\ pc = "shown"
    /\ \E n \in DOMAIN phi : \E i \in 1..Len(phi[n]) : phi[n][i][2][1] > 0
    /\ \E n \in DOMAIN phi : \E i \in 1..Len(phi[n]) : phi[n][i][2][1] = 0

\* C4: for every M and every R > 0 the interior expression evaluated at S = R
\* equals get_phi(M, R, R), the exterior value -G*M/R.
C4_ContinuousAtSurface ==
    (pc = "returned" /\ call[2] > 0 /\ call[3] = call[2]) =>
        /\ ret = phi_inside(call[1], call[2], call[2])
        /\ IsQuotient(ret, -(G * call[1]), call[2])

C4_Witness ==
    /\ pc = "returned"
    /\ call[1] > 0 /\ call[2] > 1 /\ call[3] = call[2]
    /\ ret[1] < 0

\* the offsets of p's dense grid whose mirrored distance is positive
MirroredOffsets(p) == {i \in 1..Len(S_range(p)) : p.S - S_range(p)[i] > 0}

\* C5: no curve ever holds a sample at a negative distance; a body's curve holds
\* one sample per dense offset, one more per dense offset S with p.S - S > 0, and
\* one per coarse-grid point, so the Sun's curve holds no mirrored sample.
C5_NoNegativeDistance ==
    /\ \A n \in DOMAIN phi : \A i \in 1..Len(phi[n]) : phi[n][i][1] >= 0
    /\ \A j \in 1..Len(data) :
          data[j].name \in DOMAIN produced =>
              LET p == data[j]
                  c == phi[p.name]
              IN  /\ Len(c) = Len(S_range(p)) + Cardinality(MirroredOffsets(p))
                                + Len(base_S_range(data))
                  /\ p.S = 0 => Len(c) = Len(S_range(p)) + Len(base_S_range(data))

C5_Witness ==
    /\ pc = "shown"
    /\ Len(phi["sun"]) = Len(S_range(Lookup(data, "sun"))) + Len(base_S_range(data))
    /\ Len(phi["earth"]) = 2 * Len(S_range(Lookup(data, "earth")))
                             + Len(base_S_range(data))
    /\ "mars" \in DOMAIN phi
    /\ LET p == Lookup(data, "mars")
       IN  /\ MirroredOffsets(p) # {}
           /\ \E i \in 1..Len(S_range(p)) : p.S - S_range(p)[i] = 0
           /\ \E i \in 1..Len(S_range(p)) : p.S - S_range(p)[i] < 0

\* the number of times x occurs in the sequence s
Count(s, x) == Cardinality({i \in 1..Len(s) : s[i] = x})

\* a and b hold the same elements, each as many times
IsPermutation(a, b) ==
    /\ Len(a) = Len(b)
    /\ \A i \in 1..Len(a) : Count(a, a[i]) = Count(b, a[i])

\* the orbital distance S of a named body
OrbitOf(n) == Lookup(data, n).S

\* C6: if a run found no readable cache, fetched the dataset and wrote it to the
\* cache file, then a later run that reads that cache file obtains the same
\* dataset and builds the same body mapping.
C6_CacheRoundTrip ==
    \A i \in 1..Len(history) : \A j \in 1..Len(history) :
        (/\ i < j
         /\ history[i].status = "done" /\ history[i].fetches > 0
         /\ history[j].status = "done" /\ history[j].fetches = 0
         /\ history[j].file0 = history[i].file)
        => /\ history[j].dataset = history[i].dataset
           /\ history[j].mapping = history[i].mapping

C6_Witness ==
    /\ Len(history) >= 2
    /\ history[1].status = "done" /\ history[1].fetches = 1
    /\ history[2].status = "done" /\ history[2].fetches = 0
    /\ history[2].file0 = history[1].file
    /\ Len(history[1].dataset) = 2
    /\ history[1].dataset[1].mass10_24Kg.m > 0
    /\ history[2].mapping = history[1].mapping
    /\ remote # history[1].dataset

\* the current run found no readable cache file
CacheMiss == file0.state \in {"missing", "corrupt"}

\* C7: a fetch is made if and only if reading the cache file failed; after a
\* successful read no fetch is made and the file is unchanged; after a failed
\* read the dataset is fetched once and then written to the file; a failed
\* fetch is fatal, is not retried and leaves the file unwritten.
C7_FetchIffCacheMiss ==
    /\ fetches <= 1
    /\ fetches > 0 => CacheMiss
    /\ pc = "fetch" => CacheMiss /\ fetches = 0 /\ file = file0
    /\ pc = "write" => CacheMiss /\ fetches = 1 /\ all_data = remote /\ file = file0
    /\ pc = "fatal" => CacheMiss /\ fetches = 1 /\ file = file0
    /\ pc \in {"build", "done"} =>
          IF CacheMiss
          THEN /\ fetches = 1
               /\ all_data = remote
               /\ file.state = "json"
               /\ json_load(file) = remote
          ELSE /\ fetches = 0
               /\ file = file0

C7_Witness ==
    /\ pc = "done"
    /\ file0.state = "corrupt"
    /\ fetches = 1
    /\ file.state = "json"
    /\ Len(history) = 2
    /\ history[1].status = "fatal"

\* the number y is the number x times 10^n
IsTimesPow10(y, x, n) ==
    IF x.m = 0 THEN y.m = 0 ELSE y.m = x.m /\ y.e = x.e + n

\* C8: the body mapping holds exactly the dataset's names and 'sun', each once;
\* its 'sun' entry has S = 0, M = M_sun and R = R_sun whatever the dataset holds;
\* every other body's M, S, R are the dataset's mass10_24Kg * 10^24,
\* semimajorAxis10_6Km * 10^9 and volumetricMeanRadiusKm * 10^3.
C8_BodyMapping ==
    pc = "done" =>
        /\ {data[i].name : i \in 1..Len(data)}
              = {all_data[i].key : i \in 1..Len(all_data)} \cup {"sun"}
        /\ \A i \in 1..Len(data) : \A j \in 1..Len(data) :
              data[i].name = data[j].name => i = j
        /\ \A i \in 1..Len(data) :
              data[i].name = "sun" =>
                  /\ data[i].S.m = 0
                  /\ data[i].M = M_sun /\ M_sun = [m |-> 1989, e |-> 27]
                  /\ data[i].R = R_sun /\ R_sun = [m |-> 7, e |-> 8]
        /\ \A i \in 1..Len(all_data) :
              all_data[i].key # "sun" =>
                  LET b == Lookup(data, all_data[i].key)
                  IN  /\ b.name = all_data[i].key
                      /\ IsTimesPow10(b.M, all_data[i].mass10_24Kg, 24)
                      /\ IsTimesPow10(b.S, all_data[i].semimajorAxis10_6Km, 9)
                      /\ IsTimesPow10(b.R, all_data[i].volumetricMeanRadiusKm, 3)

C8_Witness ==
    /\ pc = "done"
    /\ Len(all_data) = 2
    /\ all_data[1].key = "sun" /\ all_data[1].mass10_24Kg.m > 0
    /\ all_data[2].key = "earth" /\ all_data[2].mass10_24Kg.m > 0
    /\ Len(data) = 2
    /\ data[1].name = "sun" /\ data[1].M = M_sun

\* the distances of the curve c do not decrease
IsSortedByDistance(c) == \A i \in 1..(Len(c) - 1) : c[i][1] <= c[i + 1][1]

\* C9: the series are drawn in the order 'all', then the bodies by ascending
\* orbital distance; each series drawn was sorted before its plot call: its curve
\* has non-decreasing distances and is a permutation of the samples the sampler
\* produced for it, and the plot call was handed that curve in that order (the
\* distances as multiples of AU), so its x values do not decrease.
C9_SortedBeforePlot ==
    /\ pc \in {"render", "shown"} =>
          /\ Len(order) = Len(data) + 1
          /\ order[1] = "all"
          /\ {order[i] : i \in 2..Len(order)} = {data[i].name : i \in 1..Len(data)}
          /\ \A i \in 2..(Len(order) - 1) : OrbitOf(order[i]) <= OrbitOf(order[i + 1])
    /\ \A j \in 1..Len(plots) :
          LET c == phi[order[j]]
              call_j == plots[j]
          IN  /\ call_j.name = order[j]
              /\ IsSortedByDistance(c)
              /\ IsPermutation(c, produced[order[j]])
              /\ Len(call_j.x) = Len(c) /\ Len(call_j.y) = Len(c)
              /\ \A i \in 1..Len(c) :
                    /\ IsQuotient(call_j.x[i], c[i][1], AU(data))
                    /\ call_j.y[i] = c[i][2]
              /\ \A i \in 1..(Len(c) - 1) : RatLeq(call_j.x[i], call_j.x[i + 1])
    /\ pc = "shown" => Len(plots) = Len(order)

C9_Witness ==
    /\ pc = "shown"
    /\ Len(plots) = 4
    /\ plots[1].name = "all" /\ plots[2].name = "sun"
    /\ plots[3].name = "earth" /\ plots[4].name = "mars"
    /\ data[1].name = "mars"
    /\ ~IsSortedByDistance(produced["earth"])
    /\ IsSortedByDistance(phi["earth"])

\* C10: every sample (d, v) of a body p's curve, dense, mirrored or coarse, has
\* v = -get_phi(p.M, p.R, abs(p.S - d)): the interior formula is used exactly
\* when abs(p.S - d) < p.R, and two samples of one body at the same distance
\* have the same value.
C10_CurveIsFunctionOfDistance ==
    \A j \in 1..Len(data) :
        data[j].name \in DOMAIN phi =>
            LET p == data[j]
                c == phi[p.name]
            IN  /\ \A i \in 1..Len(c) :
                      LET x == Abs(p.S - c[i][1])
                      IN  /\ c[i][2] = RatNeg(get_phi(p.M, p.R, x))
                          /\ IF x < p.R
                             THEN IsQuotient(c[i][2],
                                             -(G * p.M * (x * x - 3 * p.R * p.R)),
                                             2 * p.R * p.R * p.R)
                             ELSE IsQuotient(c[i][2], G * p.M, x)
                /\ \A i \in 1..Len(c) : \A i2 \in (i + 1)..Len(c) :
                      c[i][1] = c[i2][1] => c[i][2] = c[i2][2]

C10_Witness ==
    /\ pc = "shown"
    /\ LET p == Lookup(data, "earth")
           c == phi["earth"]
       IN  /\ p.M > 0
           /\ \E i \in 1..Len(c) : c[i][1] < p.S /\ p.S - c[i][1] < p.R
           /\ \E i \in 1..Len(c) : c[i][1] > p.S /\ c[i][1] - p.S >= p.R
           /\ \E i \in 1..Len(c) : \E i2 \in 1..Len(c) : i # i2 /\ c[i][1] = c[i2][1]

====
